---- MODULE Spec2Model ----
(***************************************************************************)
(* Model of src/loss/torch/detection_loss.py: v8DetectionLoss (target      *)
(* preprocessing, box decoding, the loss call with its embedding selection *)
(* loop) and BboxLoss.forward.                                             *)
(*                                                                         *)
(* Tensors are functions over 0-based index ranges or sequences of rows.   *)
(* Real numbers are fixed-point integers: the integer v stands for v/One.  *)
(* A loss term is kept as an exact fraction [n, d] so that the divisions   *)
(* of the code are not rounded away.                                       *)
(***************************************************************************)
EXTENDS Integers, Sequences, FiniteSets, TLC

VARIABLES
    cfg,        \* construction-time configuration of v8DetectionLoss (self.*)
    preds,      \* the caller's prediction data
    batch,      \* the caller's annotation dict
    topk_tie,   \* how the build's torch.topk orders equal values
    results,    \* what each finished __call__ returned (or that it raised)
    pre,        \* last output of preprocess
    preE,       \* last output of preprocess_embedding
    loop,       \* the embedding selection loop run as independent iterations
    fwd         \* a direct call of BboxLoss.forward: its arguments and result

vars == <<cfg, preds, batch, topk_tie, results, pre, preE, loop, fwd>>

-----------------------------------------------------------------------------
(* Bounds of the model *)

NumImages == 2      \* batch size
FeatW == 3          \* width of the single feature level
MaxRows == 2        \* annotation rows in a batch handed to __call__
MaxRowsPre == 3     \* annotation rows in a batch handed to preprocess alone
TalTopK == 2        \* candidate positions the assigner keeps per instance
FeatH == 1          \* height of the single feature level

(* Program constants and units *)

One == 8            \* fixed-point unit
EUnit == 5          \* fixed-point unit of embedding components
Stride == 2         \* stride of the single feature level
BoxGain2 == 15      \* twice box_gain = 7.5
ClsGain2 == 1       \* twice cls_gain = 0.5
DflGain2 == 3       \* twice dfl_gain = 1.5
EmbedGain2 == 2     \* twice embed_gain = 1

NumPos == FeatH * FeatW
Images == 0 .. NumImages - 1
Pos == 0 .. NumPos - 1

-----------------------------------------------------------------------------
(* Arithmetic helpers *)

Max2(a, b) == IF b > a THEN b ELSE a
Min2(a, b) == IF b < a THEN b ELSE a
Abs(a) == IF a < 0 THEN -a ELSE a

\* a / b rounded up, so that a positive quotient stays positive
CeilDiv(a, b) == (a + b - 1) \div b

SetMax(S) == CHOOSE m \in S : \A x \in S : x <= m

RECURSIVE SumFrom(_, _, _)
SumFrom(s, i, n) == IF i > n THEN 0 ELSE s[i] + SumFrom(s, i + 1, n)

SeqSum(s) == SumFrom(s, 1, Len(s))

RECURSIVE FnSum(_, _)
FnSum(f, D) ==
    IF D = {} THEN 0
    ELSE LET x == CHOOSE y \in D : TRUE IN f[x] + FnSum(f, D \ {x})

\* the function f written out entry by entry (a materialised tensor)
RECURSIVE DenseOn(_, _)
DenseOn(f, D) ==
    IF D = {} THEN <<>>
    ELSE LET x == CHOOSE y \in D : TRUE
         IN  (x :> f[x]) @@ DenseOn(f, D \ {x})

Dense(f) == DenseOn(f, DOMAIN f)

Dense2(f) == Dense([b \in DOMAIN f |-> Dense(f[b])])

-----------------------------------------------------------------------------
(* Target preprocessing *)

ImgSz == <<FeatH * Stride, FeatW * Stride>>                \* (h, w)
ScaleTensor == <<ImgSz[2], ImgSz[1], ImgSz[2], ImgSz[1]>>  \* imgsz[[1, 0, 1, 0]]

Tensor2(rows, ne) == [shape |-> <<Len(rows), ne>>, rows |-> rows]

NoTensor == [shape |-> <<>>, data |-> <<>>]

ZeroRow(w) == [c \in 1 .. w |-> 0]

Zeros3(b, m, w) ==
    [shape |-> <<b, m, w>>,
     data |-> [j \in 0 .. b - 1 |-> [s \in 1 .. m |-> ZeroRow(w)]]]

Targets(bt) ==
    Tensor2([r \in 1 .. Len(bt.batch_idx) |->
                 <<bt.batch_idx[r], bt.cls[r]>> \o bt.bboxes[r]], 6)

TargetsEmbed(bt) ==
    Tensor2([r \in 1 .. Len(bt.batch_idx) |->
                 <<bt.batch_idx[r]>> \o bt.embedding[r]], 3)

Matches(targets, j) == SelectSeq(targets.rows, LAMBDA r : r[1] = j)

\* a faulty variant: the number of rows of the whole list
CountsMaxWrong(targets) == targets.shape[1]

CountsMax(targets) ==
    SetMax({Len(Matches(targets, v)) :
                v \in {targets.rows[r][1] : r \in 1 .. Len(targets.rows)}})

\* a faulty variant: the rows of an image in reverse order
FillImageWrong(out, targets, j) ==
    LET m == Matches(targets, j)
        n == Len(m)
    IN  IF n # 0
        THEN [out EXCEPT !.data[j] =
                 [s \in 1 .. Len(@) |-> IF s <= n THEN Tail(m[n + 1 - s]) ELSE @[s]]]
        ELSE out

FillImage(out, targets, j) ==
    LET m == Matches(targets, j)
        n == Len(m)
    IN  IF n # 0
        THEN [out EXCEPT !.data[j] =
                 [s \in 1 .. Len(@) |-> IF s <= n THEN Tail(m[s]) ELSE @[s]]]
        ELSE out

RECURSIVE FillLoop(_, _, _, _)
FillLoop(out, targets, j, batch_size) ==
    IF j >= batch_size THEN out
    ELSE FillLoop(FillImage(out, targets, j), targets, j + 1, batch_size)

xywh2xyxy(b) ==
    <<b[1] - (b[3] \div 2), b[2] - (b[4] \div 2),
      b[1] + (b[3] \div 2), b[2] + (b[4] \div 2)>>

MulScale(b, scale) == [c \in 1 .. 4 |-> b[c] * scale[c]]

ConvertRow(row, scale) ==
    <<row[1]>> \o xywh2xyxy(MulScale(SubSeq(row, 2, 5), scale))

ConvertBoxes(out, scale) ==
    [out EXCEPT !.data =
        [j \in DOMAIN @ |-> [s \in DOMAIN @[j] |-> ConvertRow(@[j][s], scale)]]]

preprocess(targets, batch_size, scale_tensor) ==
    LET nl == targets.shape[1]
        ne == targets.shape[2]
    IN  IF nl = 0
        THEN Zeros3(batch_size, 0, ne - 1)
        ELSE ConvertBoxes(
                 FillLoop(Zeros3(batch_size, CountsMax(targets), ne - 1),
                          targets, 0, batch_size),
                 scale_tensor)

preprocess_embedding(targets, batch_size) ==
    LET nl == targets.shape[1]
        ne == targets.shape[2]
    IN  IF nl = 0
        THEN Zeros3(batch_size, 0, ne - 1)
        ELSE FillLoop(Zeros3(batch_size, CountsMax(targets), ne - 1),
                      targets, 0, batch_size)

-----------------------------------------------------------------------------
(* Construction: v8DetectionLoss.__init__ *)

NC == 1
EmbeddingSize == 2
RegMaxes == {1, 2}

NewLoss(reg_max) ==
    [hyp |-> [box |-> BoxGain2, cls |-> ClsGain2, dfl |-> DflGain2,
              embed |-> EmbedGain2],
     stride |-> <<Stride>>,
     nc |-> NC,
     no |-> NC + reg_max * 4,
     embedding_size |-> EmbeddingSize,
     reg_max |-> reg_max,
     use_dfl |-> reg_max > 1,
     tal_topk |-> TalTopK,
     proj |-> [i \in 1 .. reg_max |-> i - 1]]

-----------------------------------------------------------------------------
(* Fractions: [n, d] stands for n / (One * d) *)

RatZero == [n |-> 0, d |-> 1]
RatScale(r, g) == [n |-> r.n * g, d |-> r.d]
RatAdd(a, b) ==
    IF a.d = b.d THEN [n |-> a.n + b.n, d |-> a.d]
    ELSE [n |-> a.n * b.d + b.n * a.d, d |-> a.d * b.d]
RatEq(a, b) == a.n * b.d = b.n * a.d

-----------------------------------------------------------------------------
(* Primitives the loss calls *)

\* sigmoid and softplus at the logits the model feeds in
Sigmoid(x) ==
    IF x <= -One THEN One \div 4
    ELSE IF x >= One THEN (3 * One) \div 4
    ELSE One \div 2

Softplus(x) ==
    IF x <= -One THEN One \div 4
    ELSE IF x >= One THEN (5 * One) \div 4
    ELSE (11 * One) \div 16

\* -log p at the probabilities Softmax produces
NegLog(p) ==
    IF p >= One THEN 0
    ELSE IF p >= (3 * One) \div 4 THEN One \div 4
    ELSE IF p >= One \div 2 THEN (11 * One) \div 16
    ELSE (11 * One) \div 8

\* softmax over the bins of one box side (one or two bins)
Softmax(v) ==
    IF Len(v) = 1 THEN <<One>>
    ELSE <<One - Sigmoid(v[2] - v[1]), Sigmoid(v[2] - v[1])>>

\* nn.BCEWithLogitsLoss(reduction="none") on one element
Bce(x, t) == Softplus(x) * One - x * t

\* make_anchors(feats, strides, 0.5): grid cell centres, and their strides
AnchorPoints ==
    [a \in Pos |-> <<(a % FeatW) * One + One \div 2,
                     (a \div FeatW) * One + One \div 2>>]
StrideTensor == [a \in Pos |-> Stride]

dist2bbox(distance, anchor) ==
    <<anchor[1] - distance[1], anchor[2] - distance[2],
      anchor[1] + distance[3], anchor[2] + distance[4]>>

\* bbox_iou(..., xywh=False, CIoU=True): overlap less the centre-distance penalty
bbox_iou(b1, b2) ==
    LET iw == Max2(0, Min2(b1[3], b2[3]) - Max2(b1[1], b2[1]))
        ih == Max2(0, Min2(b1[4], b2[4]) - Max2(b1[2], b2[2]))
        inter == iw * ih
        union == (b1[3] - b1[1]) * (b1[4] - b1[2])
                 + (b2[3] - b2[1]) * (b2[4] - b2[2]) - inter
        iou == IF union <= 0 THEN 0 ELSE (inter * One) \div union
        cw == Max2(b1[3], b2[3]) - Min2(b1[1], b2[1])
        ch == Max2(b1[4], b2[4]) - Min2(b1[2], b2[2])
        c2 == cw * cw + ch * ch
        dx == b2[1] + b2[3] - b1[1] - b1[3]
        dy == b2[2] + b2[4] - b1[2] - b1[4]
        rho2 == (dx * dx + dy * dy) \div 4
        pen == IF c2 = 0 THEN 0 ELSE (rho2 * One + c2 - 1) \div c2
    IN  iou - pen

\* bbox2dist(anchor_points, bbox, reg_max): ltrb distances, clamped
bbox2dist(anchor, bbox, reg_max) ==
    LET hi == Max2(0, reg_max * One - 1)
        clamp(x) == Max2(0, Min2(x, hi))
    IN  <<clamp(anchor[1] - bbox[1]), clamp(anchor[2] - bbox[2]),
          clamp(bbox[3] - anchor[1]), clamp(bbox[4] - anchor[2])>>

\* DFLoss on one position with two bins per side: interpolated cross-entropy,
\* mean over the four sides
DFLossAt(pred_dist, target_ltrb, reg_max) ==
    LET side(s) ==
            LET p == Softmax(SubSeq(pred_dist, (s - 1) * reg_max + 1, s * reg_max))
                t == target_ltrb[s]
            IN  NegLog(p[1]) * (One - t) + NegLog(p[2]) * t
    IN  ((side(1) + side(2) + side(3) + side(4)) \div 4) \div One

-----------------------------------------------------------------------------
(* torch.topk on a vector over Pos: the indices of the k largest values;    *)
(* equal values are ordered by position index, lowest or highest first.     *)

Better(v, tie, i, j) ==
    \/ v[i] > v[j]
    \/ v[i] = v[j] /\ (IF tie = "low" THEN i <= j ELSE i >= j)

RECURSIVE TopKFrom(_, _, _, _)
TopKFrom(v, k, tie, rest) ==
    IF k = 0 \/ rest = {} THEN {}
    ELSE LET best == CHOOSE i \in rest : \A j \in rest : Better(v, tie, i, j)
         IN  {best} \cup TopKFrom(v, k - 1, tie, rest \ {best})

TopK(v, k, tie) == TopKFrom(Dense(v), k, tie, DOMAIN v)

-----------------------------------------------------------------------------
(* Tensor helpers *)

Dot(p, q) == SeqSum([i \in 1 .. Len(p) |-> p[i] * q[i]])

ISqrt(s) == CHOOSE r \in 0 .. s : r * r <= s /\ (r + 1) * (r + 1) > s

Norm2(v) == ISqrt(SeqSum([c \in 1 .. Len(v) |-> v[c] * v[c]]))

NaN == "nan"

\* v / v.norm(2): a zero vector divides 0 by 0
Normalize(v) ==
    IF Norm2(v) = 0 THEN [c \in 1 .. Len(v) |-> NaN]
    ELSE [c \in 1 .. Len(v) |-> (v[c] * EUnit) \div Norm2(v)]

\* x[mask] for a mask over (image, position): the selected entries, row-major
RECURSIVE MaskSelectFrom(_, _, _)
MaskSelectFrom(mask, b, a) ==
    IF b >= NumImages THEN <<>>
    ELSE IF a >= NumPos THEN MaskSelectFrom(mask, b + 1, 0)
    ELSE (IF mask[b][a] THEN << <<b, a>> >> ELSE <<>>)
         \o MaskSelectFrom(mask, b, a + 1)

MaskSelect(mask) == MaskSelectFrom(mask, 0, 0)

MaskCount(mask) == Len(MaskSelect(mask))

-----------------------------------------------------------------------------
(* v8DetectionLoss.bbox_decode *)

bbox_decode(self, anchor_points, pred_dist) ==
    Dense2([b \in DOMAIN pred_dist |-> [a \in DOMAIN pred_dist[b] |->
        dist2bbox(
            IF self.use_dfl
            THEN [s \in 1 .. 4 |->
                     Dot(Softmax(SubSeq(pred_dist[b][a],
                                        (s - 1) * self.reg_max + 1,
                                        s * self.reg_max)),
                         self.proj)]
            ELSE pred_dist[b][a],
            anchor_points[a])]])

-----------------------------------------------------------------------------
(* TaskAlignedAssigner (utils.tal), from its contract: one image at a time. *)
(* Slots g of the padded ground truth are 1-based; the index reported for   *)
(* a position is g - 1, or BgIdx for a background position.                 *)

BgIdx == -1

InBox(p, box) ==
    /\ p[1] > box[1] /\ p[2] > box[2]
    /\ p[1] < box[3] /\ p[2] < box[4]

InGts(anc_points, gt_bboxes) ==
    Dense2([g \in DOMAIN gt_bboxes |-> [a \in Pos |->
        InBox(anc_points[a], gt_bboxes[g])]])

Overlaps(pd_bboxes, gt_bboxes, mask_gt) ==
    Dense2([g \in DOMAIN gt_bboxes |-> [a \in Pos |->
        IF mask_gt[g] THEN Max2(0, bbox_iou(gt_bboxes[g], pd_bboxes[a])) ELSE 0]])

AlignMetric(pd_scores, gt_labels, mask_gt, inGt, ov) ==
    Dense2([g \in DOMAIN gt_labels |-> [a \in Pos |->
        IF mask_gt[g] /\ inGt[g][a]
        THEN CeilDiv(pd_scores[a][gt_labels[g][1] + 1] * ov[g][a], One)
        ELSE 0]])

\* per instance, its top-k positions by alignment that lie inside its box
MaskPos(topk, mask_gt, inGt, al, tie) ==
    Dense([g \in DOMAIN al |->
        { a \in TopK(al[g], Min2(topk, NumPos), tie) : inGt[g][a] /\ mask_gt[g] }])

\* a position claimed by several instances goes to the best aligned one
Owner(maskPos, al) ==
    Dense([a \in Pos |->
        IF \A g \in DOMAIN maskPos : a \notin maskPos[g] THEN 0
        ELSE CHOOSE g \in DOMAIN maskPos :
                 /\ a \in maskPos[g]
                 /\ \A h \in DOMAIN maskPos :
                        a \in maskPos[h] =>
                            \/ al[g][a] > al[h][a]
                            \/ al[g][a] = al[h][a] /\ g <= h])

BestOf(m, owner, g) ==
    SetMax({0} \cup { m[g][a] : a \in { x \in Pos : owner[x] = g } })

\* the alignment, normalised per instance to its best overlap
NormScore(owner, al, ov) ==
    Dense([a \in Pos |->
        IF owner[a] = 0 THEN 0
        ELSE IF BestOf(al, owner, owner[a]) = 0 THEN 0
        ELSE CeilDiv(al[owner[a]][a] * BestOf(ov, owner, owner[a]),
                     BestOf(al, owner, owner[a]))])

AssignTargets(owner, score, gt_labels, gt_bboxes, gt_embeds) ==
    [target_bboxes |-> Dense([a \in Pos |->
                           IF owner[a] = 0 THEN ZeroRow(4)
                           ELSE gt_bboxes[owner[a]]]),
     target_scores |-> Dense([a \in Pos |-> [c \in 1 .. NC |->
                           IF owner[a] # 0 /\ c = gt_labels[owner[a]][1] + 1
                           THEN score[a] ELSE 0]]),
     target_embeds |-> Dense([a \in Pos |->
                           IF owner[a] = 0 THEN ZeroRow(EmbeddingSize)
                           ELSE gt_embeds[owner[a]]]),
     fg_mask       |-> Dense([a \in Pos |-> owner[a] # 0]),
     target_gt_idx |-> Dense([a \in Pos |->
                           IF owner[a] = 0 THEN BgIdx ELSE owner[a] - 1])]

AssignOwned(owner, al, ov, gt_labels, gt_bboxes, gt_embeds) ==
    AssignTargets(owner, NormScore(owner, al, ov), gt_labels, gt_bboxes, gt_embeds)

AssignAligned(topk, al, inGt, ov, gt_labels, gt_bboxes, gt_embeds, mask_gt, tie) ==
    AssignOwned(Owner(MaskPos(topk, mask_gt, inGt, al, tie), al), al, ov,
                gt_labels, gt_bboxes, gt_embeds)

AssignMeasured(topk, pd_scores, inGt, ov, gt_labels, gt_bboxes, gt_embeds, mask_gt, tie) ==
    AssignAligned(topk, AlignMetric(pd_scores, gt_labels, mask_gt, inGt, ov),
                  inGt, ov, gt_labels, gt_bboxes, gt_embeds, mask_gt, tie)

AssignImage(topk, pd_scores, pd_bboxes, pd_embeds, anc_points, gt_labels, gt_bboxes, gt_embeds, mask_gt, tie) ==
    AssignMeasured(topk, pd_scores, InGts(anc_points, gt_bboxes),
                   Overlaps(pd_bboxes, gt_bboxes, mask_gt),
                   gt_labels, gt_bboxes, gt_embeds, mask_gt, tie)

PerImage(per) ==
    [target_bboxes |-> Dense([b \in Images |-> per[b].target_bboxes]),
     target_scores |-> Dense([b \in Images |-> per[b].target_scores]),
     target_embeds |-> Dense([b \in Images |-> per[b].target_embeds]),
     fg_mask       |-> Dense([b \in Images |-> per[b].fg_mask]),
     target_gt_idx |-> Dense([b \in Images |-> per[b].target_gt_idx])]

Assigner(topk, pd_scores, pd_bboxes, pd_embeds, anc_points, gt_labels, gt_bboxes, gt_embeds, mask_gt, tie) ==
    PerImage(Dense([b \in Images |->
        AssignImage(topk, pd_scores[b], pd_bboxes[b], pd_embeds[b],
                    anc_points, gt_labels[b], gt_bboxes[b],
                    gt_embeds[b], mask_gt[b], tie)]))

-----------------------------------------------------------------------------
(* BboxLoss.forward; reg_max is the one BboxLoss was built with *)

WeightAt(target_scores, p) == SeqSum(target_scores[p[1]][p[2]])

\* a faulty variant: every position, foreground or not
ForwardPositionsAll(fg_mask) ==
    MaskSelect([b \in Images |-> [a \in Pos |-> TRUE]])

ForwardPositions(fg_mask) == MaskSelect(fg_mask)

ForwardDenominator(target_scores, target_scores_sum) == target_scores_sum

IouAll(pred_bboxes, target_bboxes) ==
    Dense2([b \in Images |-> [a \in Pos |->
        bbox_iou(pred_bboxes[b][a], target_bboxes[b][a])]])

LossIou(fg, iou, target_scores, den) ==
    [n |-> SeqSum([i \in 1 .. Len(fg) |->
              (One - iou[fg[i][1]][fg[i][2]]) * WeightAt(target_scores, fg[i])]),
     d |-> den]

LossDfl(reg_max, fg, pred_dist, anchor_points, target_bboxes, target_scores, den) ==
    IF reg_max > 1
    THEN [n |-> SeqSum([i \in 1 .. Len(fg) |->
                  DFLossAt(pred_dist[fg[i][1]][fg[i][2]],
                           bbox2dist(anchor_points[fg[i][2]],
                                     target_bboxes[fg[i][1]][fg[i][2]],
                                     reg_max - 1),
                           reg_max)
                  * WeightAt(target_scores, fg[i])]),
          d |-> den]
    ELSE RatZero

ForwardOn(reg_max, fg, iou, pred_dist, anchor_points, target_bboxes, target_scores, den) ==
    [loss_iou |-> LossIou(fg, iou, target_scores, den),
     loss_dfl |-> LossDfl(reg_max, fg, pred_dist, anchor_points, target_bboxes,
                          target_scores, den),
     iou |-> iou]

BboxLossForward(reg_max, pred_dist, pred_bboxes, anchor_points, target_bboxes, target_scores, target_scores_sum, fg_mask) ==
    ForwardOn(reg_max, ForwardPositions(fg_mask),
              IouAll(pred_bboxes, target_bboxes),
              pred_dist, anchor_points, target_bboxes, target_scores,
              ForwardDenominator(target_scores, target_scores_sum))

-----------------------------------------------------------------------------
(* The embedding selection loop of __call__ *)

UniqueSorted(row) ==
    [i \in 1 .. Cardinality({ row[a] : a \in DOMAIN row }) |->
        CHOOSE x \in { row[a] : a \in DOMAIN row } :
            Cardinality({ y \in { row[a] : a \in DOMAIN row } : y < x }) = i - 1]

InstanceTopK(iou_cls_row, gt_idx_row, instance_id, embed_topk, tie) ==
    TopK([a \in Pos |-> iou_cls_row[a]
                        * (IF gt_idx_row[a] = instance_id THEN 1 ELSE 0)],
         embed_topk, tie)

\* a faulty variant: the row is overwritten, not added to
MarkSelectedOverwrite(embed_mask, batch_index, topk_idx) ==
    [embed_mask EXCEPT ![batch_index] =
        Dense([a \in Pos |-> a \in topk_idx])]

MarkSelected(embed_mask, batch_index, topk_idx) ==
    [embed_mask EXCEPT ![batch_index] =
        Dense([a \in Pos |-> @[a] \/ a \in topk_idx])]

RECURSIVE InstanceLoop(_, _, _, _, _, _, _, _)
InstanceLoop(embed_mask, iou_cls_scores, target_gt_idx, batch_index, ids, i, embed_topk, tie) ==
    IF i > Len(ids) THEN embed_mask
    ELSE InstanceLoop(
             MarkSelected(embed_mask, batch_index,
                          InstanceTopK(iou_cls_scores[batch_index],
                                       target_gt_idx[batch_index],
                                       ids[i], embed_topk, tie)),
             iou_cls_scores, target_gt_idx, batch_index, ids, i + 1,
             embed_topk, tie)

RECURSIVE ImageLoop(_, _, _, _, _, _)
ImageLoop(embed_mask, iou_cls_scores, target_gt_idx, batch_index, embed_topk, tie) ==
    IF batch_index >= NumImages THEN embed_mask
    ELSE ImageLoop(
             InstanceLoop(embed_mask, iou_cls_scores, target_gt_idx, batch_index,
                          UniqueSorted(target_gt_idx[batch_index]) \o <<>>, 1,
                          embed_topk, tie),
             iou_cls_scores, target_gt_idx, batch_index + 1, embed_topk, tie)

ZerosLikeMask == Dense2([b \in Images |-> [a \in Pos |-> FALSE]])

EmbedSelect(iou_cls_scores, target_gt_idx, embed_topk, tie) ==
    ImageLoop(ZerosLikeMask, iou_cls_scores, target_gt_idx, 0, embed_topk, tie)

-----------------------------------------------------------------------------
(* kd_loss and rkd_loss (distillation_loss), from their contract: a direct  *)
(* distance term and a relational term over the paired rows, 0 on no rows   *)

SqDist(u, v) == SeqSum([c \in 1 .. Len(u) |-> (u[c] - v[c]) * (u[c] - v[c])])

kd_loss(student, teacher) ==
    SeqSum([i \in 1 .. Len(student) |-> SqDist(student[i], teacher[i])])

rkd_loss(teacher, student) ==
    SeqSum([i \in 1 .. Len(student) |->
        SeqSum([j \in 1 .. Len(student) |->
            IF i < j
            THEN Abs(SqDist(teacher[i], teacher[j]) - SqDist(student[i], student[j]))
            ELSE 0])])

-----------------------------------------------------------------------------
(* v8DetectionLoss.__call__.  Each stage adds the locals it assigns to the  *)
(* record L of the locals assigned so far and hands L to the next stage.    *)

\* split((reg_max * 4, nc), 1) of the (batch, channel, position) view, permuted
PredDistri(self, prd) ==
    Dense2([b \in Images |-> [a \in Pos |->
        [c \in 1 .. self.reg_max * 4 |-> prd.detect[b][c][a]]]])

PredScores(self, prd) ==
    Dense2([b \in Images |-> [a \in Pos |->
        [c \in 1 .. self.nc |-> prd.detect[b][self.reg_max * 4 + c][a]]]])

PredEmbedsRaw(self, prd) ==
    Dense2([b \in Images |-> [a \in Pos |->
        [c \in 1 .. self.embedding_size |-> prd.embeds[b][c][a]]]])

NormalizeAll(raw) ==
    Dense2([b \in Images |-> [a \in Pos |-> Normalize(raw[b][a])]])

PredEmbeds(self, prd) == NormalizeAll(PredEmbedsRaw(self, prd))

GtLabels(targets) ==
    Dense2([b \in Images |-> [s \in DOMAIN targets.data[b] |->
        SubSeq(targets.data[b][s], 1, 1)]])

GtBboxes(targets) ==
    Dense2([b \in Images |-> [s \in DOMAIN targets.data[b] |->
        SubSeq(targets.data[b][s], 2, 5)]])

MaskGt(gt_bboxes) ==
    Dense2([b \in Images |-> [s \in DOMAIN gt_bboxes[b] |->
        SeqSum(gt_bboxes[b][s]) > 0]])

TargetScoresSumRaw(target_scores) ==
    SeqSum([i \in 1 .. NumImages * NumPos |->
               SeqSum(target_scores[(i - 1) \div NumPos][(i - 1) % NumPos])])

\* a faulty variant: the sum without its floor
TargetScoresSumNoFloor(target_scores) == TargetScoresSumRaw(target_scores)

TargetScoresSum(target_scores) == Max2(TargetScoresSumRaw(target_scores), One)

ClsDenominator(target_scores, target_scores_sum) == target_scores_sum

ClsLoss(pred_scores, target_scores, target_scores_sum) ==
    [n |-> SeqSum([i \in 1 .. NumImages * NumPos |->
              SeqSum([c \in 1 .. NC |->
                  Bce(pred_scores[(i - 1) \div NumPos][(i - 1) % NumPos][c],
                      target_scores[(i - 1) \div NumPos][(i - 1) % NumPos][c])])]),
     d |-> ClsDenominator(target_scores, target_scores_sum)]

\* a faulty variant: the box and dfl gains exchanged
ApplyGainsSwapped(self, loss) ==
    <<RatScale(loss[1], self.hyp.dfl), RatScale(loss[2], self.hyp.cls),
      RatScale(loss[3], self.hyp.box), RatScale(loss[4], self.hyp.embed)>>

ApplyGains(self, loss) ==
    <<RatScale(loss[1], self.hyp.box), RatScale(loss[2], self.hyp.cls),
      RatScale(loss[3], self.hyp.dfl), RatScale(loss[4], self.hyp.embed)>>

LossSum(loss) == RatAdd(RatAdd(RatAdd(loss[1], loss[2]), loss[3]), loss[4])

Raised(error, line, embed_topk, L) ==
    [status |-> "raised", error |-> error, line |-> line,
     embed_topk |-> embed_topk, locals |-> L]

\* lines 192-200: the four terms, the gains, the three returned values
CallReturn(self, L, embed_topk) ==
    [status |-> "returned",
     embed_topk |-> embed_topk,
     total |-> LossSum(ApplyGains(self, L.loss)),
     items |-> ApplyGains(self, L.loss),
     fg_mask |-> L.fg_mask,
     locals |-> L]

\* lines 189-192: the embedding term over the rows embed_mask selects
EmbedRows(x, sel) == [i \in 1 .. Len(sel) |-> x[sel[i][1]][sel[i][2]]] \o <<>>

CallLoss(self, L, embed_topk) ==
    CallReturn(self,
               [loss |-> <<L.bl.loss_iou, L.loss_cls, L.bl.loss_dfl,
                           [n |-> kd_loss(L.kd_pred, L.kd_target)
                                  + rkd_loss(L.kd_target, L.kd_pred),
                            d |-> 1]>>] @@ L,
               embed_topk)

CallEmbed(self, L, embed_topk) ==
    CallLoss(self,
             [kd_pred |-> EmbedRows(L.pred_embeds, MaskSelect(L.embed_mask)),
              kd_target |-> EmbedRows(L.target_embeds, MaskSelect(L.embed_mask))]
             @@ L,
             embed_topk)

\* lines 177-185: the selection loop
IouClsScores(iou_scores, target_scores) ==
    Dense2([b \in Images |-> [a \in Pos |->
        SeqSum([c \in 1 .. NC |-> iou_scores[b][a] * target_scores[b][a][c]])]])

CallSelect(self, L, embed_topk, tie) ==
    IF embed_topk > NumPos
    THEN Raised("RuntimeError", 182, embed_topk, L)
    ELSE CallEmbed(self,
                   [embed_mask |-> EmbedSelect(
                        IouClsScores(L.bl.iou, L.target_scores),
                        L.target_gt_idx, embed_topk, tie)] @@ L,
                   embed_topk)

\* lines 164-177: the box branch; without it iou_scores is not bound
DivStride(boxes) ==
    Dense2([b \in Images |-> [a \in Pos |-> [c \in 1 .. 4 |->
        boxes[b][a][c] \div StrideTensor[a]]]])

CallForward(self, L, embed_topk, tie) ==
    CallSelect(self,
               [bl |-> BboxLossForward(self.reg_max, L.pred_distri, L.pred_bboxes,
                                       AnchorPoints, L.target_bboxes,
                                       L.target_scores, L.target_scores_sum,
                                       L.fg_mask)] @@ L,
               embed_topk, tie)

CallBbox(self, L, embed_topk, tie) ==
    IF MaskCount(L.fg_mask) # 0
    THEN CallForward(self,
                     [L EXCEPT !.target_bboxes = DivStride(@)],
                     embed_topk, tie)
    ELSE Raised("UnboundLocalError", 177, embed_topk, L)

\* lines 156-162: the normalisation sum and the classification term
CallCls(self, L, embed_topk, tie) ==
    CallBbox(self,
             [loss_cls |-> ClsLoss(L.pred_scores, L.target_scores,
                                   L.target_scores_sum)] @@ L,
             embed_topk, tie)

CallSum(self, L, embed_topk, tie) ==
    CallCls(self,
            [target_scores_sum |-> TargetScoresSum(L.target_scores)] @@ L,
            embed_topk, tie)

\* lines 143-154: the assigner
SigmoidAll(pred_scores) ==
    Dense2([b \in Images |-> [a \in Pos |->
        [c \in DOMAIN pred_scores[b][a] |-> Sigmoid(pred_scores[b][a][c])]]])

TimesStride(boxes) ==
    Dense2([b \in Images |-> [a \in Pos |-> [c \in 1 .. 4 |->
        boxes[b][a][c] * StrideTensor[a]]]])

AnchorsTimesStride ==
    Dense([a \in Pos |-> <<AnchorPoints[a][1] * StrideTensor[a],
                           AnchorPoints[a][2] * StrideTensor[a]>>])

CallAssign(self, L, embed_topk, tie) ==
    CallSum(self,
            Assigner(self.tal_topk, SigmoidAll(L.pred_scores),
                     TimesStride(L.pred_bboxes), L.pred_embeds,
                     AnchorsTimesStride, L.gt_labels, L.gt_bboxes,
                     L.gt_embeds.data, L.mask_gt, tie) @@ L,
            embed_topk, tie)

\* lines 135-141
CallMask(self, L, embed_topk, tie) ==
    CallAssign(self, [mask_gt |-> MaskGt(L.gt_bboxes)] @@ L, embed_topk, tie)

CallDecode(self, L, embed_topk, tie) ==
    CallMask(self,
             [gt_labels |-> GtLabels(L.targets),
              gt_bboxes |-> GtBboxes(L.targets),
              pred_bboxes |-> bbox_decode(self, AnchorPoints, L.pred_distri)] @@ L,
             embed_topk, tie)

\* lines 97-134
CallResult(self, prd, bt, embed_topk, tie) ==
    CallDecode(self,
               [pred_distri |-> PredDistri(self, prd),
                pred_scores |-> PredScores(self, prd),
                pred_embeds |-> PredEmbeds(self, prd),
                targets |-> preprocess(Targets(bt), NumImages, ScaleTensor),
                gt_embeds |-> preprocess_embedding(TargetsEmbed(bt), NumImages)],
               embed_topk, tie)

\* what the call leaves in the caller's annotation dict: targets is a torch.cat
\* copy, so the in-place rescale of preprocess never reaches batch["bboxes"]
RescaledInPlace(bt) ==
    [bt EXCEPT !.bboxes = [r \in DOMAIN @ |-> MulScale(@[r], ScaleTensor)]]

BatchAfterCall(bt) == bt

-----------------------------------------------------------------------------
(* Input domains *)

TopKs == {1, 2}
Profiles == {0, 1}

GtBoxes == { <<4, 4, 8, 8>>, <<4, 4, 4, 8>> }   \* normalized xywh: whole image, middle half
GtEmbeds == { <<3, 4>>, <<6, 8>> }              \* of norm 1 and of norm 2

\* the instances the loss call is fed
GtKinds == { [box |-> <<4, 4, 8, 8>>, emb |-> <<3, 4>>],
             [box |-> <<4, 4, 4, 8>>, emb |-> <<6, 8>>] }

RECURSIVE SeqsUpTo(_, _)
SeqsUpTo(S, n) ==
    IF n = 0 THEN { <<>> }
    ELSE LET shorter == SeqsUpTo(S, n - 1)
         IN  shorter \cup { Append(s, x) : s \in shorter, x \in S }

BatchOf(rows) ==
    [batch_idx |-> [r \in 1 .. Len(rows) |-> rows[r].img],
     cls       |-> [r \in 1 .. Len(rows) |-> 0],
     bboxes    |-> [r \in 1 .. Len(rows) |-> rows[r].box],
     embedding |-> [r \in 1 .. Len(rows) |-> rows[r].emb]]

\* any order of rows
Batches(n) ==
    { BatchOf(rows) : rows \in SeqsUpTo([img : Images, box : GtBoxes, emb : GtEmbeds], n) }

\* rows grouped by image, as a collate function concatenates them
CollatedBatches(n) ==
    { BatchOf([r \in 1 .. Len(rows) |->
                  [img |-> rows[r].img, box |-> rows[r].kind.box, emb |-> rows[r].kind.emb]]) :
        rows \in { s \in SeqsUpTo([img : Images, kind : GtKinds], n) :
                     \A r \in 1 .. Len(s) - 1 : s[r].img <= s[r + 1].img } }

ProfileLogit(p) == IF p = 0 THEN One ELSE -One
ProfileEmbed(p) == IF p = 0 THEN <<3, 4>> ELSE <<8, 6>>
ProfileDist(p, reg_max) ==
    IF reg_max = 1 THEN (IF p = 0 THEN <<(3 * One) \div 4>> ELSE <<One \div 4>>)
    ELSE (IF p = 0 THEN <<0, One>> ELSE <<One, 0>>)

\* rows of per-position predictions: the first p positions of one profile
PredRows == { [a \in Pos |-> IF a < p THEN 0 ELSE 1] : p \in 0 .. NumPos }

\* image b sees the row rotated by b
PredsOf(row, self) ==
    [detect |-> [b \in Images |-> [c \in 1 .. self.no |-> [a \in Pos |->
                    IF c <= self.reg_max * 4
                    THEN ProfileDist(row[(a + b) % NumPos], self.reg_max)
                             [((c - 1) % self.reg_max) + 1]
                    ELSE ProfileLogit(row[(a + b) % NumPos])]]],
     embeds |-> [b \in Images |-> [c \in 1 .. self.embedding_size |-> [a \in Pos |->
                    ProfileEmbed(row[(a + b) % NumPos])[c]]]]]

NoLoop == [pc |-> "off"]
NoForward == [pc |-> "off"]

-----------------------------------------------------------------------------
(* Specification of the loss call *)

Init ==
    /\ cfg \in { NewLoss(r) : r \in RegMaxes }
    /\ preds \in { PredsOf(row, cfg) : row \in PredRows }
    /\ batch \in CollatedBatches(MaxRows)
    /\ topk_tie \in {"low", "high"}
    /\ results = <<>>
    /\ pre = NoTensor
    /\ preE = NoTensor
    /\ loop = NoLoop
    /\ fwd = NoForward

Call ==
    \E embed_topk \in TopKs :
        /\ results' = Append(results,
                             CallResult(cfg, preds, batch, embed_topk, topk_tie))
        /\ batch' = BatchAfterCall(batch)
        /\ UNCHANGED <<cfg, preds, topk_tie, pre, preE, loop, fwd>>

Next == results = <<>> /\ Call

Spec == Init /\ [][Next]_vars

-----------------------------------------------------------------------------
(* Specification of the preprocessing functions applied on their own *)

InitPre ==
    /\ cfg = NewLoss(1)
    /\ preds = <<>>
    /\ batch \in Batches(MaxRowsPre)
    /\ topk_tie = "low"
    /\ results = <<>>
    /\ pre = NoTensor
    /\ preE = NoTensor
    /\ loop = NoLoop
    /\ fwd = NoForward

Preprocess ==
    /\ pre' = preprocess(Targets(batch), NumImages, ScaleTensor)
    /\ UNCHANGED <<cfg, preds, batch, topk_tie, results, preE, loop, fwd>>

PreprocessEmbedding ==
    /\ preE' = preprocess_embedding(TargetsEmbed(batch), NumImages)
    /\ UNCHANGED <<cfg, preds, batch, topk_tie, results, pre, loop, fwd>>

NextPre == Preprocess \/ PreprocessEmbedding

SpecPre == InitPre /\ [][NextPre]_vars

-----------------------------------------------------------------------------
(* Specification of two successive calls with the same arguments *)

CallAgain ==
    /\ Len(results) = 1
    /\ results' = Append(results,
                         CallResult(cfg, preds, batch, results[1].embed_topk,
                                    topk_tie))
    /\ batch' = BatchAfterCall(batch)
    /\ UNCHANGED <<cfg, preds, topk_tie, pre, preE, loop, fwd>>

InitTwice == Init /\ topk_tie = "low"

NextTwice == (results = <<>> /\ Call) \/ CallAgain

SpecTwice == InitTwice /\ [][NextTwice]_vars

-----------------------------------------------------------------------------
(* Specification of the selection loop with its (image, instance)          *)
(* iterations run one at a time in any order                               *)

LoopPairs(target_gt_idx) ==
    { <<b, target_gt_idx[b][a]>> : b \in Images, a \in Pos }

StartLoop ==
    \E embed_topk \in TopKs :
        LET r == CallResult(cfg, preds, batch, embed_topk, topk_tie)
        IN  /\ loop.pc = "off"
            /\ r.status = "returned"
            /\ loop' = [pc |-> "run",
                        iou_cls_scores |-> IouClsScores(r.locals.bl.iou,
                                                        r.locals.target_scores),
                        target_gt_idx |-> r.locals.target_gt_idx,
                        embed_topk |-> embed_topk,
                        pairs |-> LoopPairs(r.locals.target_gt_idx),
                        pending |-> LoopPairs(r.locals.target_gt_idx),
                        embed_mask |-> ZerosLikeMask]
            /\ UNCHANGED <<cfg, preds, batch, topk_tie, results, pre, preE, fwd>>

Iteration ==
    /\ loop.pc = "run"
    /\ \E p \in loop.pending :
          loop' = [loop EXCEPT
                     !.pending = @ \ {p},
                     !.embed_mask =
                         MarkSelected(@, p[1],
                             InstanceTopK(loop.iou_cls_scores[p[1]],
                                          loop.target_gt_idx[p[1]],
                                          p[2], loop.embed_topk, topk_tie))]
    /\ UNCHANGED <<cfg, preds, batch, topk_tie, results, pre, preE, fwd>>

InitLoop == Init /\ cfg = NewLoss(1) /\ topk_tie = "low"

NextLoop == StartLoop \/ Iteration

SpecLoop == InitLoop /\ [][NextLoop]_vars

-----------------------------------------------------------------------------
(* Specification of BboxLoss.forward called on its own: any foreground     *)
(* mask and any target scores, one row of them rotated through the images  *)

FwdScores == {0, One \div 2}

\* foreground rows: the positions before, or from, some position
FgRows == { [a \in Pos |-> (a < p) = before] : p \in 0 .. NumPos, before \in BOOLEAN }

\* score rows: one score on the even positions, one on the odd ones
ScoreRows == { [a \in Pos |-> IF a % 2 = 0 THEN s ELSE t] : s \in FwdScores, t \in FwdScores }

\* the annotation box in grid units, xyxy
GridBox(box) ==
    [c \in 1 .. 4 |-> xywh2xyxy(MulScale(box, ScaleTensor))[c] \div Stride]

ForwardArgs(self, prd, box, fg_row, score_row) ==
    [pc |-> "args",
     pred_dist |-> PredDistri(self, prd),
     pred_bboxes |-> bbox_decode(self, AnchorPoints, PredDistri(self, prd)),
     target_bboxes |-> Dense2([b \in Images |-> [a \in Pos |-> GridBox(box)]]),
     target_scores |-> Dense2([b \in Images |-> [a \in Pos |->
                           <<score_row[(a + b) % NumPos]>>]]),
     target_scores_sum |->
         TargetScoresSum([b \in Images |-> [a \in Pos |->
                              <<score_row[(a + b) % NumPos]>>]]),
     fg_mask |-> Dense2([b \in Images |-> [a \in Pos |->
                     fg_row[(a + b) % NumPos]]]),
     out |-> <<>>]

InitFwd ==
    /\ cfg \in { NewLoss(r) : r \in RegMaxes }
    /\ preds \in { PredsOf(row, cfg) : row \in PredRows }
    /\ batch = BatchOf(<<>>)
    /\ topk_tie = "low"
    /\ results = <<>>
    /\ pre = NoTensor
    /\ preE = NoTensor
    /\ loop = NoLoop
    /\ fwd \in { ForwardArgs(cfg, preds, box, fg_row, score_row) :
                   box \in GtBoxes,
                   fg_row \in FgRows,
                   score_row \in ScoreRows }

Forward ==
    /\ fwd.pc = "args"
    /\ fwd' = [fwd EXCEPT
                 !.pc = "done",
                 !.out = BboxLossForward(cfg.reg_max, fwd.pred_dist,
                                         fwd.pred_bboxes, AnchorPoints,
                                         fwd.target_bboxes, fwd.target_scores,
                                         fwd.target_scores_sum, fwd.fg_mask)]
    /\ UNCHANGED <<cfg, preds, batch, topk_tie, results, pre, preE, loop>>

NextFwd == Forward

SpecFwd == InitFwd /\ [][NextFwd]_vars

-----------------------------------------------------------------------------
(* C3: both preprocessing functions return a (batch_size, M, row_width)    *)
(* array, M the largest number of rows of one image (0 for an empty list), *)
(* row_width the input width less the image-index column; image j's rows   *)
(* fill its first n_j slots in input order (without the index column),     *)
(* the other slots are zero; preprocess differs from preprocess_embedding  *)
(* only by the box rescale and format conversion of columns 1..4.          *)

RowsOfImage(t, j) ==
    LET idx == { r \in 1 .. Len(t.rows) : t.rows[r][1] = j }
    IN  [s \in 1 .. Cardinality(idx) |->
            LET r == CHOOSE q \in idx :
                        Cardinality({p \in idx : p < q}) = s - 1
            IN  [c \in 1 .. t.shape[2] - 1 |-> t.rows[r][c + 1]]]

MostRows(t) ==
    IF Len(t.rows) = 0 THEN 0
    ELSE SetMax({Len(RowsOfImage(t, j)) : j \in Images})

BoxConversion(row) ==
    LET x == row[2] * ImgSz[2]
        y == row[3] * ImgSz[1]
        w == row[4] * ImgSz[2]
        h == row[5] * ImgSz[1]
    IN  <<row[1], x - (w \div 2), y - (h \div 2), x + (w \div 2), y + (h \div 2)>>

\* out is t regrouped by image and zero-padded, boxes converted or rows kept
DensePadded(out, t, boxes) ==
    /\ out.shape = <<NumImages, MostRows(t), t.shape[2] - 1>>
    /\ DOMAIN out.data = Images
    /\ \A j \in Images :
          LET rows == RowsOfImage(t, j)
          IN  /\ Len(out.data[j]) = MostRows(t)
              /\ \A s \in 1 .. MostRows(t) :
                    out.data[j][s] =
                        IF s > Len(rows) THEN ZeroRow(t.shape[2] - 1)
                        ELSE IF boxes THEN BoxConversion(rows[s])
                        ELSE rows[s]

C3_PreprocessDense ==
    /\ pre # NoTensor => DensePadded(pre, Targets(batch), TRUE)
    /\ preE # NoTensor => DensePadded(preE, TargetsEmbed(batch), FALSE)

C3_Witness ==
    /\ pre # NoTensor
    /\ preE # NoTensor
    /\ \E j \in Images : Len(RowsOfImage(Targets(batch), j)) = 0
    /\ \E j \in Images :
           /\ Len(RowsOfImage(Targets(batch), j)) >= 2
           /\ RowsOfImage(Targets(batch), j)[1] # RowsOfImage(Targets(batch), j)[2]

-----------------------------------------------------------------------------
(* Views of a finished call shared by the properties below *)

Returned(r) == r.status = "returned"

NoAnnotations == Len(batch.batch_idx) = 0

AllFalse(mask) == \A b \in Images : \A a \in Pos : ~mask[b][a]

\* positions of image b that the assigner gave to instance index g
AssignedTo(L, b, g) ==
    { a \in Pos : L.fg_mask[b][a] /\ L.target_gt_idx[b][a] = g }

Selected(L, b) == { a \in Pos : L.embed_mask[b][a] }

Foreground(L, b) == { a \in Pos : L.fg_mask[b][a] }

-----------------------------------------------------------------------------
(* C1: a call on a batch with no ground-truth instance returns normally,   *)
(* with an all-false foreground mask, box and dfl terms exactly 0 and a    *)
(* total equal to the gain-scaled classification term alone.               *)

C1_ZeroGtReturns ==
    \A i \in 1 .. Len(results) :
        NoAnnotations =>
            /\ Returned(results[i])
            /\ AllFalse(results[i].fg_mask)
            /\ results[i].items[1].n = 0
            /\ results[i].items[3].n = 0
            /\ RatEq(results[i].total, results[i].items[2])

-----------------------------------------------------------------------------
(* C2: after the selection loop, an instance with at least embed_topk      *)
(* assigned foreground positions has exactly embed_topk of them selected,  *)
(* and an instance with fewer has all of them selected.                    *)

C2_ExactlyTopK ==
    \A i \in 1 .. Len(results) :
        Returned(results[i]) =>
            \A b \in Images : \A g \in 0 .. MaxRows - 1 :
                LET L == results[i].locals
                    mine == AssignedTo(L, b, g)
                    k == results[i].embed_topk
                IN  mine # {} =>
                        IF Cardinality(mine) >= k
                        THEN Cardinality(mine \cap Selected(L, b)) = k
                        ELSE mine \subseteq Selected(L, b)

-----------------------------------------------------------------------------
(* C4: a call that returns gives as total box_gain*box + cls_gain*cls +    *)
(* dfl_gain*dfl + embed_gain*embed, as breakdown those four gain-scaled    *)
(* terms in the order (box, cls, dfl, embed), whose sum is the total, and  *)
(* as mask the assigner's foreground mask.                                 *)

-----------------------------------------------------------------------------
(* C5: the classification, box and dfl terms of a call are divided by one  *)
(* and the same value, max(sum of all target scores, 1): it is at least 1, *)
(* is 1 whenever the sum is at most 1, and is never zero.                  *)

C5_CommonDenominator ==
    \A i \in 1 .. Len(results) :
        LET L == results[i].locals
            total == TargetScoresSumRaw(L.target_scores)
        IN  /\ L.target_scores_sum >= One
            /\ total <= One => L.target_scores_sum = One
            /\ total > One => L.target_scores_sum = total
            /\ L.loss_cls.d = L.target_scores_sum
            /\ Returned(results[i]) =>
                  /\ L.bl.loss_iou.d = L.target_scores_sum
                  /\ cfg.reg_max > 1 => L.bl.loss_dfl.d = L.target_scores_sum

C5_Witness ==
    /\ results # <<>>
    /\ Returned(results[1])
    /\ cfg.reg_max > 1
    /\ results[1].locals.bl.loss_dfl.n > 0
    /\ TargetScoresSumRaw(results[1].locals.target_scores) > 0
    /\ TargetScoresSumRaw(results[1].locals.target_scores) < One

-----------------------------------------------------------------------------
(* C6: two successive calls with the same predictions, annotations and     *)
(* embed_topk give the same total, breakdown and foreground mask (or fail  *)
(* alike), and no call changes the configuration, the caller's predictions *)
(* or the caller's annotations.                                            *)

SameOutputs(r1, r2) ==
    /\ r1.status = r2.status
    /\ Returned(r1) =>
          /\ r1.total = r2.total
          /\ r1.items = r2.items
          /\ r1.fg_mask = r2.fg_mask
    /\ ~Returned(r1) => r1.error = r2.error /\ r1.line = r2.line

C6_SecondCallAgrees ==
    Len(results) = 2 => SameOutputs(results[1], results[2])

C6_InputsUntouched ==
    [][cfg' = cfg /\ preds' = preds /\ batch' = batch]_vars

-----------------------------------------------------------------------------
(* C7: whatever the order in which the (image, instance) iterations of the *)
(* selection loop are run, the final embed_mask is the one the loop in its *)
(* written order produces (top-k ties broken by position index).           *)

C7_OrderIndependent ==
    (loop.pc = "run" /\ loop.pending = {}) =>
        loop.embed_mask = EmbedSelect(loop.iou_cls_scores, loop.target_gt_idx,
                                      loop.embed_topk, topk_tie)

C7_Witness ==
    /\ loop.pc = "run"
    /\ loop.pending = {}
    /\ \E b \in Images : \E p, q \in loop.pairs :
          /\ p[1] = b /\ q[1] = b /\ p[2] # q[2]
          /\ InstanceTopK(loop.iou_cls_scores[b], loop.target_gt_idx[b],
                          p[2], loop.embed_topk, topk_tie)
             # InstanceTopK(loop.iou_cls_scores[b], loop.target_gt_idx[b],
                            q[2], loop.embed_topk, topk_tie)
          /\ Cardinality({ a \in Pos : loop.embed_mask[b][a] }) >= 2

-----------------------------------------------------------------------------
(* C8: every embedding row handed to kd_loss and rkd_loss, predicted or    *)
(* target, has L2 norm 1.                                                  *)

UnitNorm(v) == Norm2(v) = EUnit

C8_UnitNormEmbeddings ==
    \A i \in 1 .. Len(results) :
        Returned(results[i]) =>
            /\ \A r \in 1 .. Len(results[i].locals.kd_pred) :
                  UnitNorm(results[i].locals.kd_pred[r])
            /\ \A r \in 1 .. Len(results[i].locals.kd_target) :
                  UnitNorm(results[i].locals.kd_target[r])

-----------------------------------------------------------------------------
(* C9: the selection marks only positions assigned to a ground-truth       *)
(* instance: embed_mask is a subset of fg_mask.                            *)

C9_SelectedAreForeground ==
    \A i \in 1 .. Len(results) :
        Returned(results[i]) =>
            \A b \in Images :
                Selected(results[i].locals, b) \subseteq Foreground(results[i].locals, b)

-----------------------------------------------------------------------------
(* C10: BboxLoss.forward returns as box loss the sum over the foreground   *)
(* positions of (sum of the position's target scores) * (1 - IoU) over the *)
(* normalisation sum, so boxes at other positions change neither loss; as  *)
(* dfl loss the same weighting and denominator when reg_max > 1 and        *)
(* exactly 0 otherwise; and an IoU entry for every position.               *)

FgPairs(fg_mask) == { p \in Images \X Pos : fg_mask[p[1]][p[2]] }

BoxTermAt(args, p) ==
    (One - bbox_iou(args.pred_bboxes[p[1]][p[2]], args.target_bboxes[p[1]][p[2]]))
    * SeqSum(args.target_scores[p[1]][p[2]])

DflTermAt(args, reg_max, p) ==
    DFLossAt(args.pred_dist[p[1]][p[2]],
             bbox2dist(AnchorPoints[p[2]], args.target_bboxes[p[1]][p[2]],
                       reg_max - 1),
             reg_max)
    * SeqSum(args.target_scores[p[1]][p[2]])

\* the boxes with those outside the foreground replaced by another box
Elsewhere(boxes, fg_mask, box) ==
    [b \in Images |-> [a \in Pos |-> IF fg_mask[b][a] THEN boxes[b][a] ELSE box]]

OtherBoxes == { <<0, 0, One, One>>, <<One, 0, 3 * One, One>> }

C10_ForwardOverForeground ==
    fwd.pc = "done" =>
        /\ fwd.out.loss_iou =
              [n |-> FnSum([p \in FgPairs(fwd.fg_mask) |-> BoxTermAt(fwd, p)],
                           FgPairs(fwd.fg_mask)),
               d |-> fwd.target_scores_sum]
        /\ fwd.out.loss_dfl =
              IF cfg.reg_max > 1
              THEN [n |-> FnSum([p \in FgPairs(fwd.fg_mask) |->
                                    DflTermAt(fwd, cfg.reg_max, p)],
                                FgPairs(fwd.fg_mask)),
                    d |-> fwd.target_scores_sum]
              ELSE [n |-> 0, d |-> 1]
        /\ \A pb \in OtherBoxes : \A tb \in OtherBoxes :
              LET other == BboxLossForward(
                               cfg.reg_max, fwd.pred_dist,
                               Elsewhere(fwd.pred_bboxes, fwd.fg_mask, pb),
                               AnchorPoints,
                               Elsewhere(fwd.target_bboxes, fwd.fg_mask, tb),
                               fwd.target_scores, fwd.target_scores_sum,
                               fwd.fg_mask)
              IN  /\ other.loss_iou = fwd.out.loss_iou
                  /\ other.loss_dfl = fwd.out.loss_dfl
        /\ DOMAIN fwd.out.iou = Images
        /\ \A b \in Images :
              /\ DOMAIN fwd.out.iou[b] = Pos
              /\ \A a \in Pos :
                    fwd.out.iou[b][a] = bbox_iou(fwd.pred_bboxes[b][a],
                                                 fwd.target_bboxes[b][a])

C10_Witness ==
    /\ fwd.pc = "done"
    /\ cfg.reg_max > 1
    /\ fwd.out.loss_iou.n > 0
    /\ fwd.out.loss_dfl.n > 0
    /\ \E p \in (Images \X Pos) \ FgPairs(fwd.fg_mask) : BoxTermAt(fwd, p) > 0

====
